---- MODULE Spec2Model ----
(***************************************************************************)
(* A model of extract_pdf.py: the text normalizers (pure functions over    *)
(* strings), the extraction chain, the per-file task runner process_file,  *)
(* and the batch orchestrator main with its multiprocessing pool.          *)
(*                                                                         *)
(* A text is a sequence of characters.  The third-party PDF libraries are  *)
(* opaque: a document is described by what the library calls made on it    *)
(* return or raise.                                                        *)
(***************************************************************************)
EXTENDS Integers, Sequences, FiniteSets, TLC

\* ------------------------------------------------------------------ bounds
\* longest input text of the text-normalizer specification
MaxLen == 7
\* number of times the batch is run over the same directories
MaxRuns == 2
\* most pages of a document
MaxPages == 2
\* largest worker count passed to main (0 stands for None)
MaxWorkersArg == 1
\* most tables camelot.read_pdf returns for a document
MaxTables == 2

\* ------------------------------------------------------------- characters
\* "a" is a word character (\w), "S" a lone surrogate code point
Alphabet == {"a", "-", "\n", "S"}

IsWord(c) == c = "a"

IsSurrogate(c) == c = "S"

Texts == UNION {[1..k -> Alphabet] : k \in 0..MaxLen}

\* ------------------------------------------------------- text normalizers
\* re.sub(r'(\w)-\n(\w)', r'\1\2', text): leftmost, non-overlapping matches,
\* the scan resuming after the end of each match
RECURSIVE SubHyphenFrom(_, _)
SubHyphenFrom(t, i) ==
  IF i > Len(t) THEN <<>>
  ELSE IF /\ i + 3 <= Len(t)
          /\ IsWord(t[i])
          /\ t[i + 1] = "-"
          /\ t[i + 2] = "\n"
          /\ IsWord(t[i + 3])
       THEN <<t[i], t[i + 3]>> \o SubHyphenFrom(t, i + 4)
       ELSE <<t[i]>> \o SubHyphenFrom(t, i + 1)

\* the end of the run of newlines that starts at i (greedy \n{3,})
RECURSIVE NewlineRunEnd(_, _)
NewlineRunEnd(t, i) ==
  IF i <= Len(t) /\ t[i] = "\n" THEN NewlineRunEnd(t, i + 1) ELSE i

\* re.sub(r'\n{3,}', '\n\n', text)
RECURSIVE SubNewlinesFrom(_, _)
SubNewlinesFrom(t, i) ==
  IF i > Len(t) THEN <<>>
  ELSE IF NewlineRunEnd(t, i) - i >= 3
       THEN <<"\n", "\n">> \o SubNewlinesFrom(t, NewlineRunEnd(t, i))
       ELSE <<t[i]>> \o SubNewlinesFrom(t, i + 1)

\* the first definition of clean_hyphenation, rebound by the second one below
clean_hyphenation_first(text) == SubNewlinesFrom(SubHyphenFrom(text, 1), 1)

\* the definition the module name clean_hyphenation is bound to after import
clean_hyphenation(text) == SubHyphenFrom(text, 1)

\* a bug: re.sub with count=1, only the first surrogate is deleted
RECURSIVE RemoveFirstSurrogate(_)
RemoveFirstSurrogate(text) ==
  IF Len(text) = 0 THEN <<>>
  ELSE IF IsSurrogate(Head(text)) THEN Tail(text)
       ELSE <<Head(text)>> \o RemoveFirstSurrogate(Tail(text))

\* re.sub(r'[\ud800-\udfff]', '', text)
remove_surrogates(text) == SelectSeq(text, LAMBDA c : ~IsSurrogate(c))


\* ------------------------------------------------------------- file names
\* a file name is <<stem, extension>>; os.listdir returns names of any kind
DirNames == {<<"a", "pdf">>, <<"a", "PDF">>, <<"b", "pdf">>, <<"n", "txt">>}

\* str.lower() on an extension
Lower(ext) == CASE ext = "PDF" -> "pdf"
                [] ext = "Pdf" -> "pdf"
                [] OTHER -> ext

\* f.lower().endswith(".pdf")
IsPdfName(name) == Lower(name[2]) = "pdf"

\* Path(out_dir) / (Path(pdf_name).stem + ".md")
out_fp(name) == <<name[1], "md">>

OutPaths == {out_fp(n) : n \in DirNames}

\* ------------------------------------------------------------- documents
\* what a library call returns: a text, or an exception
Returns(t) == [raises |-> FALSE, text |-> t]

Raises == [raises |-> TRUE, text |-> <<>>]

\* a page: what get_text("markdown") and get_text("text") do on it
PMd == [md |-> Returns(<<"a">>), txt |-> Returns(<<"a">>)]

PTxt == [md |-> Raises, txt |-> Returns(<<"S", "a">>)]

PBlank == [md |-> Returns(<<>>), txt |-> Returns(<<>>)]

PBad == [md |-> Raises, txt |-> Raises]

PageKinds == {PMd, PTxt, PBlank, PBad}

\* the pages of a document: at least one
PageSeqs == UNION {[1..k -> PageKinds] : k \in 1..MaxPages}

\* a file that is not a PDF document and is never handed to the library
NoDoc == [opens |-> FALSE, primary |-> Raises, pages |-> <<>>, pdf |-> FALSE]

\* fitz.open raises on it
DUnopenable == [opens |-> FALSE, primary |-> Raises, pages |-> <<>>, pdf |-> TRUE]

\* pymupdf4llm.to_markdown converts it
DGood == [opens |-> TRUE, primary |-> Returns(<<"a", "S", "-">>),
          pages |-> <<PMd>>, pdf |-> TRUE]

\* to_markdown raises; every page yields text
DFallback == [opens |-> TRUE, primary |-> Raises, pages |-> <<PTxt, PMd>>, pdf |-> TRUE]

\* the documents of the batch specification: one that cannot be opened, one the
\* primary converter converts, one only the fallback converts
SampleDocs == {DUnopenable, DGood, DFallback}

\* the documents of the single-document specification
AllDocs == {DUnopenable, DGood} \cup
           {[opens |-> TRUE, primary |-> Raises, pages |-> ps, pdf |-> TRUE] :
              ps \in PageSeqs}

\* ------------------------------------------------------------- exceptions
\* an exception: its class, its str(), and the classes of the exceptions that
\* were being handled when it was raised (__context__, oldest first)
Exc(type, str, ctx) == [type |-> type, str |-> str, ctx |-> ctx]

OpenError(ctx) == Exc("FileDataError", "cannot open document", ctx)

ConvertError(ctx) == Exc("RuntimeError", "conversion failed", ctx)

PageError(ctx) == Exc("ValueError", "page extraction failed", ctx)

AccessError(ctx) == Exc("PermissionError", "permission denied", ctx)

NoSpaceError(ctx) == Exc("OSError", "no space left on device", ctx)

\* the classes derived from Exception
ExceptionClasses == {"FileDataError", "RuntimeError", "ValueError",
                     "PermissionError", "OSError"}

\* traceback.format_exc(): the chain of handled exceptions, then the exception
format_exc(e) == e.ctx \o <<e.type>>

\* f"{type(e).__name__}: {e}\n{traceback.format_exc()}"
ErrorMessage(e) == <<e.type, ": ", e.str, "\n">> \o format_exc(e)

\* a bug: only operating-system errors are caught
CatchesOSErrorOnly(e) == e.type \in {"PermissionError", "OSError"}

\* except Exception as e
Catches(e) == e.type \in ExceptionClasses

\* ----------------------------------------------------------- file system
NoFile == [exists |-> FALSE, data |-> <<>>]

File(data) == [exists |-> TRUE, data |-> data]

\* f.write(new) at offset 0 of a file holding old
Overlay(new, old) == new \o SubSeq(old, Len(new) + 1, Len(old))

\* "\n\n---\n\n"
Separator == <<"\n", "\n", "-", "-", "-", "\n", "\n">>

\* a bug: the parts are joined with nothing between them
RECURSIVE JoinPlain(_)
JoinPlain(parts) ==
  IF Len(parts) = 0 THEN <<>> ELSE parts[1] \o JoinPlain(Tail(parts))

\* "\n\n---\n\n".join(parts)
RECURSIVE Join(_)
Join(parts) ==
  IF Len(parts) = 0 THEN <<>>
  ELSE IF Len(parts) = 1 THEN parts[1]
       ELSE parts[1] \o Separator \o Join(Tail(parts))

\* ------------------------------------------------------------------ state
VARIABLES
  text,           \* text normalizer: the input text
  tpc,            \* text normalizer: "off", "in", "once", "twice", "removed"
  tout,           \* clean_hyphenation(text)
  tout2,          \* clean_hyphenation(clean_hyphenation(text))
  tsur,           \* remove_surrogates(text)
  tdoc,           \* table extractor: what the table libraries do on the document
  xpc,            \* extract_tables_markdown: where it is
  cam,            \* extract_tables_markdown: the tables of camelot.read_pdf
  xi,             \* extract_tables_markdown: the index of its current loop
  tables_per_page,\* extract_tables_markdown: its dict
  calls,          \* history: the detections extract_tables_markdown has called
  dir,            \* the names os.listdir(input_dir) returns
  doc,            \* what the PDF libraries do on each file of the directory
  disk,           \* the output directory: "ok", "noaccess" or "full"
  fs,             \* the files of the output directory
  run,            \* how many times main has been called
  mainpc,         \* main: "off", "idle", "pool", "done", "aborted"
  skip_existing,  \* main's argument
  arg_n_workers,  \* main's argument n_workers (0: None)
  n_workers,      \* main's local n_workers, the size of the pool
  all_pdfs,       \* main's list of input files
  tk,             \* per task: where process_file is, its locals and its result
  ok,             \* main's tally
  fail,
  errors,
  stdout,         \* what main has printed in this run
  fs0,            \* history: the output directory when this run of main began
  prevOK,         \* history: the tasks the previous run reported as successes
  prevSkip,       \* history: skip_existing of the previous run
  partial         \* history: the output files a terminated worker was writing

textvars == <<text, tpc, tout, tout2, tsur>>

tablevars == <<tdoc, xpc, cam, xi, tables_per_page, calls>>

envvars == <<dir, doc, disk>>

histvars == <<fs0, prevOK, prevSkip, partial>>

mainvars == <<run, mainpc, skip_existing, arg_n_workers, n_workers, all_pdfs,
              ok, fail, errors, stdout>>

vars == <<textvars, tablevars, envvars, fs, mainvars, tk, histvars>>

\* ------------------------------------------------------------------ tasks
NoResult == [name |-> <<"", "">>, success |-> FALSE, msg |-> <<>>, raised |-> FALSE]

\* the result tuple (pdf_name, success, message)
Result(name, success, msg) ==
  [name |-> name, success |-> success, msg |-> msg, raised |-> FALSE]

\* no exception
NoExc == Exc("", "", <<>>)

\* pc, the locals pg, parts, md, the classes ctx of the exceptions being handled,
\* the result res; and as history: the exception exc that reached the handler of
\* process_file, how often the input was opened and the primary converter tried,
\* how often a worker took the task and main took its result
IdleTask == [pc |-> "none", pg |-> 0, parts |-> <<>>, md |-> <<>>, ctx |-> <<>>,
             res |-> NoResult, exc |-> NoExc, opens |-> 0, tries |-> 0,
             starts |-> 0, takes |-> 0]

QueuedTask == [IdleTask EXCEPT !.pc = "queued"]

RunningPcs == {"primary", "fallback", "page", "write", "writing"}

\* the tasks some worker of the pool is processing
InProgress == {t \in DirNames : tk[t].pc \in RunningPcs}

\* process_file returns res: its locals are gone, the result is on its way to main
Returned(task, res) ==
  [task EXCEPT !.pc = "returned", !.pg = 0, !.parts = <<>>, !.md = <<>>,
               !.ctx = <<>>, !.res = res]

\* process_file's handler, lines 140-145; an exception it does not catch leaves
\* process_file and the pool raises it again in main
process_file_except(name, e) ==
  IF Catches(e)
  THEN Result(name, FALSE, ErrorMessage(e))
  ELSE [name |-> name, success |-> FALSE, msg |-> ErrorMessage(e), raised |-> TRUE]

\* a bug: the flag is ignored and every existing output is redone
SkipHitNever(skip, path) == FALSE

\* a bug: the test of the existence is negated
SkipHitInverted(skip, path) == skip /\ ~fs[path].exists

\* skip and out_fp.exists(), when exists() returns
SkipHit(skip, path) == skip /\ fs[path].exists

\* ------------------------------------------------------------------- init
TextIdle == text = <<>> /\ tpc = "off" /\ tout = <<>> /\ tout2 = <<>> /\ tsur = <<>>

\* a dict without keys
EmptyDict == <<>>

\* a document without tables that raises nowhere
NoTableDoc == [lattice |-> [raises |-> FALSE, pages |-> <<>>],
               stream |-> [raises |-> FALSE, pages |-> <<>>],
               opens |-> TRUE, scan |-> <<>>]

TableIdle ==
  /\ tdoc = NoTableDoc /\ xpc = "off" /\ cam = <<>> /\ xi = 0
  /\ tables_per_page = EmptyDict /\ calls = {}

MainIdle(pc) ==
  /\ run = 0 /\ mainpc = pc /\ skip_existing = TRUE /\ arg_n_workers = 0
  /\ n_workers = 0 /\ all_pdfs = {} /\ ok = 0 /\ fail = 0 /\ errors = <<>>
  /\ stdout = <<>>
  /\ tk = [n \in DirNames |-> IdleTask]
  /\ fs = [p \in OutPaths |-> NoFile]
  /\ fs0 = fs /\ prevOK = {} /\ prevSkip = FALSE /\ partial = {}

\* the batch: a directory of a few files, each PDF one of the sample documents
Init ==
  /\ TextIdle
  /\ TableIdle
  /\ dir \in SUBSET DirNames
  /\ doc \in [DirNames -> SampleDocs \cup {NoDoc}]
  /\ \A n \in DirNames : doc[n].pdf <=> (n \in dir /\ IsPdfName(n))
  /\ disk \in {"ok", "noaccess", "full"}
  /\ MainIdle("idle")

\* one document of any kind
ChainInit ==
  /\ TextIdle
  /\ TableIdle
  /\ dir = {<<"a", "pdf">>}
  /\ doc \in {[n \in DirNames |-> IF n \in dir THEN d ELSE NoDoc] : d \in AllDocs}
  /\ disk \in {"ok", "noaccess", "full"}
  /\ MainIdle("idle")

\* the text normalizers on every text up to MaxLen characters
TextInit ==
  /\ text \in Texts /\ tpc = "in" /\ tout = <<>> /\ tout2 = <<>> /\ tsur = <<>>
  /\ TableIdle
  /\ dir = {} /\ doc = [n \in DirNames |-> NoDoc] /\ disk = "ok"
  /\ MainIdle("off")

\* ------------------------------------------------------------------- main
\* line 158: n_workers = 10
FixedWorkers == 10

\* a bug: the filter of line 152 is missing
ListsEveryName(names) == names

\* line 152: [f for f in os.listdir(input_dir) if f.lower().endswith(".pdf")]
ListPdfs(names) == {f \in names : IsPdfName(f)}

\* main, lines 147-166: list the PDFs; with none, report and return; else fix
\* the worker count, build one task per file and start the pool
Main_Start(skip, nw) ==
  /\ mainpc \in {"idle", "done"}
  /\ run < MaxRuns
  /\ run' = run + 1
  /\ skip_existing' = skip
  /\ arg_n_workers' = nw
  /\ fs0' = fs
  /\ prevOK' = {t \in all_pdfs : tk[t].pc = "consumed" /\ tk[t].res.success}
  /\ prevSkip' = (run > 0 /\ skip_existing)
  /\ partial' = partial
  /\ all_pdfs' = ListPdfs(dir)
  /\ ok' = 0 /\ fail' = 0 /\ errors' = <<>>
  /\ IF all_pdfs' = {}
     THEN /\ stdout' = <<[kind |-> "nopdf"]>>
          /\ n_workers' = nw
          /\ tk' = [n \in DirNames |-> IdleTask]
          /\ mainpc' = "done"
     ELSE /\ n_workers' = FixedWorkers
          /\ stdout' = <<[kind |-> "count", n |-> n_workers'],
                         [kind |-> "found", n |-> Cardinality(all_pdfs')],
                         [kind |-> "using", n |-> n_workers']>>
          /\ tk' = [n \in DirNames |-> IF n \in all_pdfs' THEN QueuedTask ELSE IdleTask]
          /\ mainpc' = "pool"
  /\ UNCHANGED <<textvars, tablevars, envvars, fs>>

\* ----------------------------------------------------------- process_file
\* an exception e leaves the try block of process_file in task t
Fail(t, e) ==
  tk' = [tk EXCEPT ![t] = Returned([@ EXCEPT !.exc = e], process_file_except(t, e))]

\* a bug: the output file is opened for writing before the conversion
PF_StartOpensOutput(t) ==
  /\ mainpc = "pool"
  /\ tk[t].pc = "queued"
  /\ Cardinality(InProgress) < n_workers
  /\ IF skip_existing /\ disk = "noaccess"
     THEN /\ tk' = [tk EXCEPT ![t] =
                      Returned([@ EXCEPT !.exc = AccessError(<<>>), !.starts = @ + 1],
                               process_file_except(t, AccessError(<<>>)))]
          /\ fs' = fs
     ELSE IF SkipHit(skip_existing, out_fp(t))
          THEN /\ tk' = [tk EXCEPT ![t] = Returned([@ EXCEPT !.starts = @ + 1],
                                                   Result(t, TRUE, <<"skipped">>))]
               /\ fs' = fs
          ELSE /\ tk' = [tk EXCEPT ![t].pc = "primary", ![t].starts = @ + 1]
               /\ fs' = IF disk = "noaccess" THEN fs
                        ELSE [fs EXCEPT ![out_fp(t)] = File(<<>>)]
  /\ UNCHANGED <<textvars, tablevars, envvars, mainvars, histvars>>

\* a worker of the pool takes task t; process_file lines 128-134
PF_Start(t) ==
  /\ mainpc = "pool"
  /\ tk[t].pc = "queued"
  /\ Cardinality(InProgress) < n_workers
  /\ IF skip_existing /\ disk = "noaccess"
     THEN tk' = [tk EXCEPT ![t] =
                   Returned([@ EXCEPT !.exc = AccessError(<<>>), !.starts = @ + 1],
                            process_file_except(t, AccessError(<<>>)))]
     ELSE IF SkipHit(skip_existing, out_fp(t))
          THEN tk' = [tk EXCEPT ![t] = Returned([@ EXCEPT !.starts = @ + 1],
                                                Result(t, TRUE, <<"skipped">>))]
          ELSE tk' = [tk EXCEPT ![t].pc = "primary", ![t].starts = @ + 1]
  /\ UNCHANGED <<textvars, tablevars, envvars, fs, mainvars, histvars>>

\* a bug: after an exception the primary converter is tried a second time
\* before the fallback
Chain_PrimaryRetry(t) ==
  /\ mainpc = "pool"
  /\ tk[t].pc = "primary"
  /\ IF ~doc[t].opens \/ doc[t].primary.raises
     THEN IF tk[t].tries = 0
          THEN tk' = [tk EXCEPT ![t].opens = @ + 1, ![t].tries = @ + 1]
          ELSE tk' = [tk EXCEPT ![t].pc = "fallback", ![t].opens = @ + 1,
                                ![t].tries = @ + 1,
                                ![t].ctx = <<ConvertError(<<>>).type>>]
     ELSE tk' = [tk EXCEPT ![t].pc = "write", ![t].opens = @ + 1,
                           ![t].tries = @ + 1, ![t].md = doc[t].primary.text]
  /\ UNCHANGED <<textvars, tablevars, envvars, fs, mainvars, histvars>>

\* pdf_to_markdown_with_pymupdf4llm, lines 120-125: open the document and
\* convert it; any exception leads to the fallback
Chain_Primary(t) ==
  /\ mainpc = "pool"
  /\ tk[t].pc = "primary"
  /\ IF ~doc[t].opens
     THEN tk' = [tk EXCEPT ![t].pc = "fallback", ![t].opens = @ + 1,
                           ![t].tries = @ + 1, ![t].ctx = <<OpenError(<<>>).type>>]
     ELSE IF doc[t].primary.raises
          THEN tk' = [tk EXCEPT ![t].pc = "fallback", ![t].opens = @ + 1,
                                ![t].tries = @ + 1,
                                ![t].ctx = <<ConvertError(<<>>).type>>]
          ELSE tk' = [tk EXCEPT ![t].pc = "write", ![t].opens = @ + 1,
                                ![t].tries = @ + 1, ![t].md = doc[t].primary.text]
  /\ UNCHANGED <<textvars, tablevars, envvars, fs, mainvars, histvars>>

\* safe_plain_markdown, lines 109-110: open the document again
Fallback_Open(t) ==
  /\ mainpc = "pool"
  /\ tk[t].pc = "fallback"
  /\ IF ~doc[t].opens
     THEN tk' = [tk EXCEPT ![t] =
                   Returned([@ EXCEPT !.opens = @ + 1, !.exc = OpenError(tk[t].ctx)],
                            process_file_except(t, OpenError(tk[t].ctx)))]
     ELSE tk' = [tk EXCEPT ![t].pc = "page", ![t].opens = @ + 1, ![t].pg = 1,
                           ![t].parts = <<>>]
  /\ UNCHANGED <<textvars, tablevars, envvars, fs, mainvars, histvars>>

\* a bug: the plain-text extraction is never tried
PagePartMdOnly(page) == page.md

\* lines 112-115: the part a page contributes, or the exception of the
\* plain-text extraction made in the handler of the markdown one
PagePart(page) == IF page.md.raises THEN page.txt ELSE page.md

\* safe_plain_markdown, lines 111-115: the next page
Fallback_Page(t) ==
  /\ mainpc = "pool"
  /\ tk[t].pc = "page"
  /\ tk[t].pg <= Len(doc[t].pages)
  /\ LET part == PagePart(doc[t].pages[tk[t].pg]) IN
       IF part.raises
       THEN Fail(t, PageError(tk[t].ctx \o <<PageError(<<>>).type>>))
       ELSE tk' = [tk EXCEPT ![t].pg = @ + 1, ![t].parts = Append(@, part.text)]
  /\ UNCHANGED <<textvars, tablevars, envvars, fs, mainvars, histvars>>

\* safe_plain_markdown, line 116, returning through line 125 to line 136
Fallback_Join(t) ==
  /\ mainpc = "pool"
  /\ tk[t].pc = "page"
  /\ tk[t].pg > Len(doc[t].pages)
  /\ tk' = [tk EXCEPT ![t].pc = "write", ![t].md = Join(tk[t].parts),
                      ![t].pg = 0, ![t].parts = <<>>, ![t].ctx = <<>>]
  /\ UNCHANGED <<textvars, tablevars, envvars, fs, mainvars, histvars>>

\* safe_write_utf8, lines 103-104: open(path, "w") creates or truncates
Write_Open(t) ==
  /\ mainpc = "pool"
  /\ tk[t].pc = "write"
  /\ IF disk = "noaccess"
     THEN Fail(t, AccessError(<<>>)) /\ fs' = fs
     ELSE /\ tk' = [tk EXCEPT ![t].pc = "writing"]
          /\ fs' = [fs EXCEPT ![out_fp(t)] = File(<<>>)]
  /\ UNCHANGED <<textvars, tablevars, envvars, mainvars, histvars>>

\* safe_write_utf8, line 105, and process_file, line 138: write the text
\* without its surrogates at the start of the file, close, return success
Write_Data(t) ==
  /\ mainpc = "pool"
  /\ tk[t].pc = "writing"
  /\ LET clean == remove_surrogates(tk[t].md) IN
       IF disk = "full" /\ Len(clean) > 0
       THEN Fail(t, NoSpaceError(<<>>)) /\ fs' = fs
       ELSE /\ tk' = [tk EXCEPT ![t] = Returned(@, Result(t, TRUE, <<>>))]
            /\ fs' = [fs EXCEPT ![out_fp(t)] = File(Overlay(clean, @.data))]
  /\ UNCHANGED <<textvars, tablevars, envvars, mainvars, histvars>>

\* main, lines 169-178: the next result of imap_unordered, in completion order
Main_Consume(t) ==
  /\ mainpc = "pool"
  /\ tk[t].pc = "returned"
  /\ tk' = [tk EXCEPT ![t].pc = "consumed", ![t].takes = @ + 1]
  /\ IF tk[t].res.raised
     THEN /\ mainpc' = "aborted"
          /\ UNCHANGED <<ok, fail, errors>>
     ELSE /\ mainpc' = mainpc
          /\ IF tk[t].res.success
             THEN ok' = ok + 1 /\ UNCHANGED <<fail, errors>>
             ELSE /\ fail' = fail + 1
                  /\ errors' = Append(errors, <<tk[t].res.name, tk[t].res.msg>>)
                  /\ ok' = ok
  /\ UNCHANGED <<textvars, tablevars, envvars, fs, run, skip_existing, arg_n_workers,
                 n_workers, all_pdfs, stdout, histvars>>

\* a bug: the tally is printed as soon as every task has returned, before
\* main has taken every result
Main_PrintEarly ==
  /\ mainpc = "pool"
  /\ \A t \in all_pdfs : tk[t].pc \in {"returned", "consumed"}
  /\ stdout' = stdout \o <<[kind |-> "tally", ok |-> ok, fail |-> fail]>>
                 \o [i \in 1..Len(errors) |-> [kind |-> "error", f |-> errors[i][1],
                                                 e |-> errors[i][2]]]
  /\ mainpc' = "done"
  /\ UNCHANGED <<textvars, tablevars, envvars, fs, run, skip_existing, arg_n_workers,
                 n_workers, all_pdfs, ok, fail, errors, tk, histvars>>

\* main, lines 180-185: every result is in; print the tally and the errors
Main_Print ==
  /\ mainpc = "pool"
  /\ \A t \in all_pdfs : tk[t].pc = "consumed"
  /\ stdout' = stdout \o <<[kind |-> "tally", ok |-> ok, fail |-> fail]>>
                 \o [i \in 1..Len(errors) |-> [kind |-> "error", f |-> errors[i][1],
                                                 e |-> errors[i][2]]]
  /\ mainpc' = "done"
  /\ UNCHANGED <<textvars, tablevars, envvars, fs, run, skip_existing, arg_n_workers,
                 n_workers, all_pdfs, ok, fail, errors, tk, histvars>>

Worker(t) ==
  \/ PF_Start(t)
  \/ Chain_Primary(t)
  \/ Fallback_Open(t)
  \/ Fallback_Page(t)
  \/ Fallback_Join(t)
  \/ Write_Open(t)
  \/ Write_Data(t)

Next ==
  \/ \E skip \in BOOLEAN, nw \in 0..MaxWorkersArg : Main_Start(skip, nw)
  \/ \E t \in DirNames : Worker(t)
  \/ \E t \in DirNames : Main_Consume(t)
  \/ Main_Print

Spec == Init /\ [][Next]_vars

ChainSpec == ChainInit /\ [][Next]_vars

\* the processes of the batch are terminated from outside while the worker of
\* task t is in f.write (line 105), after open (line 104) has created or
\* truncated the destination: the first k characters have reached the file,
\* the rest and every process of the batch are lost
Kill(t) ==
  /\ mainpc = "pool"
  /\ tk[t].pc = "writing"
  /\ LET clean == remove_surrogates(tk[t].md) IN
       \E k \in 0..(Len(clean) - 1) :
         fs' = [fs EXCEPT ![out_fp(t)] = File(Overlay(SubSeq(clean, 1, k), @.data))]
  /\ partial' = partial \cup {out_fp(t)}
  /\ tk' = [n \in DirNames |-> IdleTask]
  /\ mainpc' = "idle"
  /\ UNCHANGED <<textvars, tablevars, envvars, run, skip_existing, arg_n_workers,
                 n_workers, all_pdfs, ok, fail, errors, stdout, fs0, prevOK, prevSkip>>

\* one document of any kind, in batches that may be terminated during a write
CrashNext ==
  \/ Next
  \/ \E t \in DirNames : Kill(t)

CrashSpec == ChainInit /\ [][CrashNext]_vars

\* a step of a worker process or of main's loop over the results
Progress ==
  \/ \E t \in DirNames : Worker(t)
  \/ \E t \in DirNames : Main_Consume(t)
  \/ Main_Print

\* the operating system keeps running the processes of a batch: while one of
\* them can take a step, one of them does
Fairness == WF_vars(Progress)

\* one batch, called as the script calls main (n_workers = None), on every
\* directory of the batch specification
LiveNext ==
  \/ \E skip \in BOOLEAN : run = 0 /\ Main_Start(skip, 0)
  \/ Progress

LiveSpec == Init /\ [][LiveNext]_vars /\ Fairness

\* ------------------------------------------------- text normalizer steps
Text_Clean ==
  /\ tpc = "in"
  /\ tout' = clean_hyphenation(text)
  /\ tpc' = "once"
  /\ UNCHANGED <<text, tout2, tsur, tablevars, envvars, fs, mainvars, tk, histvars>>

Text_CleanAgain ==
  /\ tpc = "once"
  /\ tout2' = clean_hyphenation(tout)
  /\ tpc' = "twice"
  /\ UNCHANGED <<text, tout, tsur, tablevars, envvars, fs, mainvars, tk, histvars>>

Text_Remove ==
  /\ tpc = "in"
  /\ tsur' = remove_surrogates(text)
  /\ tpc' = "removed"
  /\ UNCHANGED <<text, tout, tout2, tablevars, envvars, fs, mainvars, tk, histvars>>

TextNext == Text_Clean \/ Text_CleanAgain \/ Text_Remove

TextSpec == TextInit /\ [][TextNext]_vars

\* -------------------------------------------------- extract_tables_markdown
\* the page numbers of the tables of a detection, in page order
TablePages(np) ==
  {ps \in UNION {[1..k -> 1..np] : k \in 0..MaxTables} :
     \A i \in 1..Len(ps), j \in 1..Len(ps) : i <= j => ps[i] <= ps[j]}

\* what camelot.read_pdf does: it raises, or returns tables, each with its page
CamResults(np) ==
  {[raises |-> TRUE, pages |-> <<>>]} \cup
  {[raises |-> FALSE, pages |-> ps] : ps \in TablePages(np)}

\* what page.extract_tables() does on a page: it raises, or returns n tables
ScanResults == {[raises |-> TRUE, n |-> 0], [raises |-> FALSE, n |-> 0],
                [raises |-> FALSE, n |-> 1]}

\* a document of np pages as the table libraries see it; one that pdfplumber
\* cannot open has no scan results
TableDocs ==
  UNION {
    {[np |-> np, lattice |-> l, stream |-> st, opens |-> TRUE, scan |-> sc] :
       l \in CamResults(np), st \in CamResults(np), sc \in [1..np -> ScanResults]}
    \cup
    {[np |-> np, lattice |-> l, stream |-> st, opens |-> FALSE,
      scan |-> [i \in 1..np |-> [raises |-> FALSE, n |-> 0]]] :
       l \in CamResults(np), st \in CamResults(np)}
    : np \in 1..MaxPages}

NoCam == [flavor |-> "none", pages |-> <<>>]

\* t.df.to_markdown(index=False) of the k-th table of a detection
TableMarkdown(flavor, k) == <<flavor, k>>

\* tables_per_page.setdefault(page, []).append(md)
SetDefaultAppend(d, page, md) ==
  [p \in DOMAIN d \cup {page} |->
     IF p = page
     THEN IF page \in DOMAIN d THEN Append(d[page], md) ELSE <<md>>
     ELSE d[p]]

\* tables_per_page[i] = md_list
SetItem(d, i, md_list) ==
  [p \in DOMAIN d \cup {i} |-> IF p = i THEN md_list ELSE d[p]]

\* a bug: the test of line 67 is missing
HasKeyNever(d, i) == FALSE

\* i in tables_per_page
HasKey(d, i) == i \in DOMAIN d

\* a bug: the tests of lines 70 and 76 are missing
TruthyAlways(list) == TRUE

\* the truth value of a list: not tbls, if md_list
Truthy(list) == Len(list) > 0

\* lines 72-75: the markdown of the n tables of a page
PageMarkdowns(n) == [j \in 1..n |-> TableMarkdown("plumber", j)]

TableInit ==
  /\ TextIdle
  /\ tdoc \in TableDocs /\ xpc = "start" /\ cam = NoCam /\ xi = 0
  /\ tables_per_page = EmptyDict /\ calls = {}
  /\ dir = {} /\ doc = [n \in DirNames |-> NoDoc] /\ disk = "ok"
  /\ MainIdle("off")

\* lines 53-56: lattice detection; with no table, stream detection is next; an
\* exception leaves the try block
X_Lattice ==
  /\ xpc = "start"
  /\ calls' = calls \cup {"lattice"}
  /\ IF tdoc.lattice.raises
     THEN xpc' = "plumber" /\ UNCHANGED <<cam, xi>>
     ELSE IF Len(tdoc.lattice.pages) = 0
          THEN xpc' = "stream" /\ UNCHANGED <<cam, xi>>
          ELSE /\ xpc' = "loop"
               /\ cam' = [flavor |-> "lattice", pages |-> tdoc.lattice.pages]
               /\ xi' = 1
  /\ UNCHANGED <<tdoc, tables_per_page, textvars, envvars, fs, mainvars, tk, histvars>>

\* line 56: stream detection
X_Stream ==
  /\ xpc = "stream"
  /\ calls' = calls \cup {"stream"}
  /\ IF tdoc.stream.raises
     THEN xpc' = "plumber" /\ UNCHANGED <<cam, xi>>
     ELSE /\ xpc' = "loop"
          /\ cam' = [flavor |-> "stream", pages |-> tdoc.stream.pages]
          /\ xi' = 1
  /\ UNCHANGED <<tdoc, tables_per_page, textvars, envvars, fs, mainvars, tk, histvars>>

\* lines 57-60: the next table of cam
X_Table ==
  /\ xpc = "loop"
  /\ xi <= Len(cam.pages)
  /\ tables_per_page' =
       SetDefaultAppend(tables_per_page, cam.pages[xi], TableMarkdown(cam.flavor, xi))
  /\ xi' = xi + 1
  /\ UNCHANGED <<tdoc, xpc, cam, calls, textvars, envvars, fs, mainvars, tk, histvars>>

\* line 57: cam is exhausted
X_CamDone ==
  /\ xpc = "loop"
  /\ xi > Len(cam.pages)
  /\ xpc' = "plumber"
  /\ UNCHANGED <<tdoc, cam, xi, tables_per_page, calls, textvars, envvars, fs,
                 mainvars, tk, histvars>>

\* line 65: pdfplumber.open; its exception leaves extract_tables_markdown
X_PlumberOpen ==
  /\ xpc = "plumber"
  /\ calls' = calls \cup {"plumber"}
  /\ IF tdoc.opens THEN xpc' = "scan" /\ xi' = 1 ELSE xpc' = "raised" /\ xi' = xi
  /\ UNCHANGED <<tdoc, cam, tables_per_page, textvars, envvars, fs, mainvars, tk,
                 histvars>>

\* lines 66-77: the next page of the generic scan
X_Page ==
  /\ xpc = "scan"
  /\ xi <= tdoc.np
  /\ IF HasKey(tables_per_page, xi)
     THEN xi' = xi + 1 /\ UNCHANGED <<xpc, tables_per_page>>
     ELSE IF tdoc.scan[xi].raises
          THEN xpc' = "raised" /\ UNCHANGED <<xi, tables_per_page>>
          ELSE LET md_list == PageMarkdowns(tdoc.scan[xi].n) IN
                 /\ xi' = xi + 1
                 /\ xpc' = xpc
                 /\ tables_per_page' =
                      IF Truthy(md_list)
                      THEN SetItem(tables_per_page, xi, md_list)
                      ELSE tables_per_page
  /\ UNCHANGED <<tdoc, cam, calls, textvars, envvars, fs, mainvars, tk, histvars>>

\* line 78: return tables_per_page
X_Return ==
  /\ xpc = "scan"
  /\ xi > tdoc.np
  /\ xpc' = "returned"
  /\ UNCHANGED <<tdoc, cam, xi, tables_per_page, calls, textvars, envvars, fs,
                 mainvars, tk, histvars>>

TableNext ==
  \/ X_Lattice
  \/ X_Stream
  \/ X_Table
  \/ X_CamDone
  \/ X_PlumberOpen
  \/ X_Page
  \/ X_Return

TableSpec == TableInit /\ [][TableNext]_vars

\* ----------------------------------------------------------------- claims
Finished(t) == tk[t].pc \in {"returned", "consumed"}

Skipped(t) == Result(t, TRUE, <<"skipped">>)

\* C1: process_file never raises to the orchestrator.  Whenever an exception
\* reaches its try block (from the skip check, the open or a page of the
\* fallback, or the write; an exception of the primary converter is absorbed by
\* the chain), it returns (name, False, message), the message being the
\* exception's type name, ": ", its string form, a newline and the stack trace,
\* which ends with that exception; with no such exception it returns success.
C1_NeverRaises ==
  /\ mainpc # "aborted"
  /\ \A t \in DirNames : Finished(t) =>
       /\ ~tk[t].res.raised
       /\ tk[t].res.name = t
       /\ tk[t].exc = NoExc => tk[t].res.success
       /\ tk[t].exc # NoExc =>
            /\ ~tk[t].res.success
            /\ Len(tk[t].res.msg) > 4
            /\ SubSeq(tk[t].res.msg, 1, 4) = <<tk[t].exc.type, ": ", tk[t].exc.str, "\n">>
            /\ tk[t].res.msg[Len(tk[t].res.msg)] = tk[t].exc.type
            /\ Len(tk[t].res.msg) = 5 + Len(tk[t].exc.ctx)

\* a failure whose exception was raised while another was being handled has
\* been reported to main
C1_Witness ==
  \E t \in DirNames :
    /\ tk[t].pc = "consumed"
    /\ ~tk[t].res.success
    /\ tk[t].exc.type = "FileDataError"
    /\ Len(tk[t].exc.ctx) > 0

\* C2: when the skip flag is set and the output file exists, process_file
\* returns (name, True, "skipped") in the step of its check, the input has not
\* been opened, and no output file is created, truncated or modified.
C2_SkipLeavesFiles ==
  [][\A t \in DirNames :
       (tk[t].pc = "queued" /\ tk'[t].pc # "queued"
          /\ skip_existing /\ fs[out_fp(t)].exists) =>
         /\ tk'[t].pc = "returned"
         /\ tk'[t].res = Skipped(t)
         /\ tk'[t].opens = 0
         /\ tk'[t].tries = 0
         /\ fs' = fs]_vars

\* a task has been skipped over an output file that holds text
C2_Witness ==
  \E t \in DirNames :
    /\ tk[t].pc = "returned"
    /\ tk[t].res = Skipped(t)
    /\ tk[t].opens = 0
    /\ Len(fs[out_fp(t)].data) > 0

\* C3: in a run of main with skip-existing that follows a run with
\* skip-existing, every task the previous run reported as a success has its
\* output file, which this run never changes, and reports success "skipped",
\* whatever the interleaving of the workers.
C3_SecondRunSkips ==
  (mainpc \in {"pool", "done"} /\ run >= 2 /\ prevSkip /\ skip_existing) =>
    \A t \in prevOK :
      /\ fs0[out_fp(t)].exists
      /\ fs[out_fp(t)] = fs0[out_fp(t)]
      /\ Finished(t) => tk[t].res = Skipped(t)

\* a second run has ended: it skipped an output of the first run and retried a
\* document the first run failed on
C3_Witness ==
  /\ mainpc = "done" /\ run = 2 /\ prevSkip /\ skip_existing
  /\ \E t \in prevOK : tk[t].res = Skipped(t) /\ Len(fs[out_fp(t)].data) > 0
  /\ \E u \in all_pdfs \ prevOK : ~tk[u].res.success

\* the chain converts document d: it opens, and the primary converter or every
\* page of the fallback returns
Converts(d) ==
  /\ d.opens
  /\ \/ ~d.primary.raises
     \/ \A i \in 1..Len(d.pages) : ~(d.pages[i].md.raises /\ d.pages[i].txt.raises)

\* C4: a first run over N PDFs with no output yet, exactly one of which cannot
\* be opened while the others convert and are written, ends with OK = N-1 and
\* Failed = 1, the error list holding exactly the unopenable document with a
\* message that names the exception type of the failed open.
C4_OneFailure ==
  (/\ mainpc = "done" /\ run = 1 /\ disk = "ok" /\ all_pdfs # {}
   /\ Cardinality({t \in all_pdfs : ~doc[t].opens}) = 1
   /\ \A t \in all_pdfs : doc[t].opens => Converts(doc[t])) =>
    /\ ok = Cardinality(all_pdfs) - 1
    /\ fail = 1
    /\ Len(errors) = 1
    /\ ~doc[errors[1][1]].opens
    /\ errors[1][2][1] = OpenError(<<>>).type

\* C5: the tasks of a batch have pairwise distinct output paths.
C5_DistinctOutputs ==
  \A t, u \in all_pdfs : t # u => out_fp(t) # out_fp(u)

\* the tally line "Done. OK: <ok>, Failed: <fail>" is on stdout
TallyPrinted ==
  \E i \in 1..Len(stdout) : stdout[i] = [kind |-> "tally", ok |-> ok, fail |-> fail]

\* C6: once the pool of a batch is started, main eventually prints the tally
\* line, and by then every task of the batch, a failed one's siblings included,
\* has been processed and counted.
C6_TallyEventually ==
  (mainpc = "pool") ~>
     (/\ mainpc = "done"
      /\ TallyPrinted
      /\ \A t \in all_pdfs : tk[t].pc = "consumed"
      /\ ok + fail = Cardinality(all_pdfs))

\* a batch has ended with the tally printed, a failure and a success in it
C6_Witness ==
  /\ mainpc = "done" /\ TallyPrinted
  /\ fail >= 1 /\ ok >= 1
  /\ Len(errors) = fail

\* C7: when main is given a worker count, the pool has that many workers and no
\* more tasks than that are in progress at a time.
C7_PoolSizeIsArgument ==
  (mainpc = "pool" /\ arg_n_workers # 0) =>
    /\ n_workers = arg_n_workers
    /\ Cardinality(InProgress) <= arg_n_workers

\* the chain was entered for task t (the task was not skipped, and the skip
\* check did not raise)
Converted(t) == tk[t].tries > 0

\* the text of the fallback: a page's markdown text or, when that extraction
\* raises, its plain text
PageText(page) == IF page.md.raises THEN page.txt.text ELSE page.md.text

FallbackText(d) == Join([i \in 1..Len(d.pages) |-> PageText(d.pages[i])])

\* safe_write_utf8 writes text without raising
Writable(t) == disk = "ok" \/ (disk = "full" /\ remove_surrogates(t) = <<>>)

C9_Idempotent == tpc = "twice" => tout2 = tout

\* the text has three or more consecutive newlines
HasBlankRun(t) ==
  \E i \in 1..Len(t) : i + 2 <= Len(t) /\ t[i] = "\n" /\ t[i + 1] = "\n" /\ t[i + 2] = "\n"

\* C10: the result of the module's clean_hyphenation on a text with three or
\* more consecutive newlines has no three consecutive newlines.
C10_BlankLinesCollapsed ==
  (tpc \in {"once", "twice"} /\ HasBlankRun(text)) => ~HasBlankRun(tout)

\* the positions of text that hold no surrogate
KeptPositions(t) == {i \in 1..Len(t) : ~IsSurrogate(t[i])}

\* the k-th of these positions
KeptPosition(t, k) ==
  CHOOSE i \in KeptPositions(t) : Cardinality({j \in KeptPositions(t) : j <= i}) = k

\* C11: remove_surrogates(T) holds no code point of 0xD800-0xDFFF, holds the
\* other characters of T, all of them and in their order, and is T when T has
\* no such code point.
C11_SurrogatesRemoved ==
  tpc = "removed" =>
    /\ \A i \in 1..Len(tsur) : ~IsSurrogate(tsur[i])
    /\ Len(tsur) = Cardinality(KeptPositions(text))
    /\ \A k \in 1..Len(tsur) : tsur[k] = text[KeptPosition(text, k)]
    /\ KeptPositions(text) = 1..Len(text) => tsur = text

\* two surrogates have been deleted from between other characters
C11_Witness ==
  /\ tpc = "removed"
  /\ Len(text) - Len(tsur) >= 2
  /\ Len(tsur) >= 2
  /\ IsSurrogate(text[2])
  /\ tsur[1] # tsur[2]

\* no detection finds a table in the document: each camelot detection raises
\* or returns no table, and the scan of every page returns no table
NoTableDetected(d) ==
  /\ d.lattice.raises \/ d.lattice.pages = <<>>
  /\ d.stream.raises \/ d.stream.pages = <<>>
  /\ d.opens
  /\ \A i \in 1..d.np : ~d.scan[i].raises /\ d.scan[i].n = 0

\* C12: on a document in which no detection finds a table,
\* extract_tables_markdown does not raise and its dict has no key, throughout
\* and when it returns.
C12_NoTablesEmptyDict ==
  (xpc # "off" /\ NoTableDetected(tdoc)) =>
    /\ xpc # "raised"
    /\ DOMAIN tables_per_page = {}

\* the function has returned for a document on which a camelot detection raised
C12_Witness ==
  /\ xpc = "returned"
  /\ NoTableDetected(tdoc)
  /\ tdoc.lattice.raises
  /\ tdoc.np >= 2
  /\ calls = {"lattice", "plumber"}

\* no name of the input directory ends in .pdf, in either case
NoPdfNames == \A n \in dir : n[2] \notin {"pdf", "PDF"}

\* C13: when no name of the input directory ends in .pdf, a call of main prints
\* "No PDF files found." and nothing else and returns: no task exists, no worker
\* runs, no output file exists and no tally is printed.
C13_NoPdfNoWork ==
  (run >= 1 /\ NoPdfNames) =>
    /\ mainpc = "done"
    /\ stdout = <<[kind |-> "nopdf"]>>
    /\ \A n \in DirNames : tk[n] = IdleTask
    /\ \A p \in OutPaths : fs[p] = NoFile
    /\ ok = 0 /\ fail = 0 /\ errors = <<>>

\* main has returned twice on a directory that holds only a text file
C13_Witness ==
  /\ run = 2
  /\ dir = {<<"n", "txt">>}
  /\ mainpc = "done"
  /\ stdout = <<[kind |-> "nopdf"]>>

\* the primary converter raises on document d
PrimaryRaises(d) == ~d.opens \/ d.primary.raises

\* the exceptions the fallback raises: of fitz.open with the primary's
\* exception as context, or of a page
FromFallback(e) ==
  \/ e.type = "FileDataError" /\ e.ctx # <<>>
  \/ e.type = "ValueError"

\* C14: in every task the primary converter is attempted at most once, and
\* exactly once when the chain has moved on; the fallback runs only after the
\* primary converter raised; an exception of the fallback leaves the chain and
\* becomes the failure result of process_file.
C14_PrimaryThenFallback ==
  \A t \in DirNames :
    /\ tk[t].tries <= 1
    /\ tk[t].pc = "primary" => tk[t].tries = 0
    /\ tk[t].pc \in {"fallback", "page", "write", "writing"} => tk[t].tries = 1
    /\ tk[t].pc \in {"fallback", "page"} => PrimaryRaises(doc[t])
    /\ (Finished(t) /\ FromFallback(tk[t].exc)) =>
         /\ tk[t].tries = 1
         /\ PrimaryRaises(doc[t])
         /\ tk[t].res = Result(t, FALSE, ErrorMessage(tk[t].exc))
    /\ (Finished(t) /\ tk[t].tries = 1 /\ PrimaryRaises(doc[t]) /\ ~Converts(doc[t])) =>
         FromFallback(tk[t].exc)

\* the second page of a document raised in the fallback after the primary
\* converter had raised
C14_Witness ==
  \E t \in DirNames :
    /\ Finished(t)
    /\ doc[t].opens
    /\ Len(doc[t].pages) = 2
    /\ tk[t].exc.type = "ValueError"
    /\ tk[t].tries = 1
    /\ ~tk[t].res.success

\* the first k page texts of document d, a rule of two newlines, three hyphens
\* and two newlines between each two
RECURSIVE PagesUpTo(_, _)
PagesUpTo(d, k) ==
  IF k = 0 THEN <<>>
  ELSE IF k = 1 THEN PageText(d.pages[1])
       ELSE PagesUpTo(d, k - 1) \o <<"\n", "\n", "-", "-", "-", "\n", "\n">>
              \o PageText(d.pages[k])

\* C15: while the fallback walks the pages, the parts are one per page passed,
\* in page order, each the markdown text of its page or, where that extraction
\* raised, the plain text of that page; what the fallback returns is these
\* parts with "\n\n---\n\n" between them.
C15_OnePartPerPage ==
  \A t \in DirNames :
    /\ tk[t].pc = "page" =>
         /\ Len(tk[t].parts) = tk[t].pg - 1
         /\ \A i \in 1..Len(tk[t].parts) : tk[t].parts[i] = PageText(doc[t].pages[i])
    /\ (tk[t].pc \in {"write", "writing"} /\ PrimaryRaises(doc[t])) =>
         tk[t].md = PagesUpTo(doc[t], Len(doc[t].pages))

\* the fallback has returned the text of two pages, the first from the
\* plain-text extraction, the second from the markdown one
C15_Witness ==
  \E t \in DirNames :
    /\ tk[t].pc = "write"
    /\ PrimaryRaises(doc[t])
    /\ Len(doc[t].pages) = 2
    /\ doc[t].pages[1].md.raises /\ ~doc[t].pages[2].md.raises
    /\ tk[t].md = <<"S", "a", "\n", "\n", "-", "-", "-", "\n", "\n", "a">>

\* the tasks whose result main has taken
Taken == {t \in all_pdfs : tk[t].takes = 1}

\* C16: in a batch every task is started by a worker at most once, and once as
\* soon as it is past the queue; main takes at most one result per task; the
\* counters account for exactly the results taken; when the tally is printed
\* every task of the batch has returned and been taken, OK + Failed is the
\* number of tasks and the error list has Failed entries.
C16_EachTaskOnce ==
  /\ \A t \in DirNames :
       /\ tk[t].starts <= 1 /\ tk[t].takes <= 1
       /\ tk[t].starts = 1 <=> tk[t].pc \in RunningPcs \cup {"returned", "consumed"}
       /\ tk[t].takes = 1 <=> tk[t].pc = "consumed"
       /\ tk[t].starts = 1 => t \in all_pdfs
  /\ ok + fail = Cardinality(Taken)
  /\ Len(errors) = fail
  /\ TallyPrinted =>
       /\ \A t \in all_pdfs : tk[t].pc = "consumed" /\ tk[t].starts = 1
       /\ ok + fail = Cardinality(all_pdfs)
       /\ \E i \in 1..Len(stdout) :
            stdout[i] = [kind |-> "tally", ok |-> ok, fail |-> fail]
       /\ Cardinality({i \in 1..Len(stdout) : stdout[i].kind = "error"}) = fail

\* the tally of a batch of three documents with successes and a failure
C16_Witness ==
  /\ TallyPrinted
  /\ Cardinality(all_pdfs) = 3
  /\ ok >= 1 /\ fail >= 1
  /\ Len(errors) = fail

\* C17 as claimed: when extract_tables_markdown is over, the stream detection
\* has been run if the lattice detection raised, and if it found no table, and
\* the generic scan has been run in every case.
C17_TiersDegrade ==
  xpc \in {"returned", "raised"} =>
    /\ tdoc.lattice.raises => "stream" \in calls
    /\ (~tdoc.lattice.raises /\ tdoc.lattice.pages = <<>>) => "stream" \in calls
    /\ "plumber" \in calls

\* the tables of the camelot detection in use that lie on page p, by position
CamelotOn(p) == {k \in 1..Len(cam.pages) : cam.pages[k] = p}

\* the i-th smallest element of a set of numbers
Nth(ks, i) == CHOOSE k \in ks : Cardinality({j \in ks : j <= k}) = i

\* C18: every key of tables_per_page is a page of the document and maps to a
\* non-empty list; once the camelot loop is over, a page with camelot tables
\* maps to exactly the markdown of those tables in their order, whatever the
\* generic scan finds on it, and any other key maps to the tables the generic
\* scan found on that page.
C18_TablesByPage ==
  /\ \A p \in DOMAIN tables_per_page :
       p \in 1..tdoc.np /\ Len(tables_per_page[p]) > 0
  /\ xpc \in {"plumber", "scan", "returned", "raised"} =>
       \A p \in 1..tdoc.np :
         IF CamelotOn(p) # {}
         THEN /\ p \in DOMAIN tables_per_page
              /\ Len(tables_per_page[p]) = Cardinality(CamelotOn(p))
              /\ \A i \in 1..Len(tables_per_page[p]) :
                   tables_per_page[p][i] = <<cam.flavor, Nth(CamelotOn(p), i)>>
         ELSE p \in DOMAIN tables_per_page =>
                /\ ~tdoc.scan[p].raises
                /\ Len(tables_per_page[p]) = tdoc.scan[p].n
                /\ \A i \in 1..Len(tables_per_page[p]) :
                     tables_per_page[p][i] = <<"plumber", i>>

\* the function has returned a dict in which page 1 holds two camelot tables,
\* although the generic scan finds a table there, and page 2 the scan's table
C18_Witness ==
  /\ xpc = "returned"
  /\ cam.pages = <<1, 1>>
  /\ tdoc.scan[1].n = 1
  /\ DOMAIN tables_per_page = {1, 2}
  /\ Len(tables_per_page[1]) = 2
  /\ tables_per_page[2] = <<<<"plumber", 1>>>>

\* the text a completed conversion of document d leaves in its output file
FullText(d) ==
  remove_surrogates(IF d.primary.raises THEN FallbackText(d) ELSE d.primary.text)

\* s is the start of t and shorter than t
StrictPrefix(s, t) == Len(s) < Len(t) /\ s = SubSeq(t, 1, Len(s))

\* the output of task t is a file cut short by a termination
CutShort(file, t) ==
  /\ out_fp(t) \in partial
  /\ file.exists
  /\ StrictPrefix(file.data, FullText(doc[t]))

\* C19: a batch terminated while a worker writes leaves the output file in
\* place holding only a start of the text; in a later batch with
\* skip_existing, the task of a document whose output was cut short is not
\* converted, its file stays as it was when the batch started, and its result
\* is the success "skipped".
C19_PartialOutputSkipped ==
  /\ \A p \in partial : fs[p].exists
  /\ (mainpc = "idle" /\ run >= 1) => \E t \in all_pdfs : CutShort(fs[out_fp(t)], t)
  /\ \A t \in all_pdfs :
       (mainpc \in {"pool", "done"} /\ skip_existing /\ CutShort(fs0[out_fp(t)], t)) =>
         /\ fs[out_fp(t)] = fs0[out_fp(t)]
         /\ tk[t].pc \in {"queued", "returned", "consumed"}
         /\ tk[t].tries = 0
         /\ Finished(t) => tk[t].res = Skipped(t)

\* a batch with skip_existing has ended after an earlier one was terminated:
\* the document counts as a success and its file is still cut short
C19_Witness ==
  \E t \in all_pdfs :
    /\ mainpc = "done"
    /\ skip_existing
    /\ CutShort(fs[out_fp(t)], t)
    /\ Len(fs[out_fp(t)].data) = 1
    /\ tk[t].res = Skipped(t)
    /\ ok = 1 /\ fail = 0

\* the text the extraction chain returns for document d
ChainText(d) == IF d.primary.raises THEN FallbackText(d) ELSE d.primary.text

\* C20 for a directory of one document: while a task converts, its output file
\* is as it was when the batch started, and the file is opened only with the whole text of the chain in
\* hand; a task that ends with an exception of the chain leaves the file as it
\* was; the output of a document the chain cannot convert never exists, and
\* a later batch with skip_existing converts it again instead of skipping it.
C20_FailureLeavesNoOutput ==
  \A t \in all_pdfs :
    /\ tk[t].pc \in {"queued", "primary", "fallback", "page", "write"} =>
         fs[out_fp(t)] = fs0[out_fp(t)]
    /\ tk[t].pc \in {"write", "writing"} =>
         Converts(doc[t]) /\ tk[t].md = ChainText(doc[t])
    /\ (Finished(t) /\ FromFallback(tk[t].exc)) => fs[out_fp(t)] = fs0[out_fp(t)]
    /\ ~Converts(doc[t]) => fs[out_fp(t)] = NoFile
    /\ (Finished(t) /\ ~Converts(doc[t]) /\ disk # "noaccess") =>
         /\ tk[t].tries = 1
         /\ FromFallback(tk[t].exc)
         /\ tk[t].res = Result(t, FALSE, ErrorMessage(tk[t].exc))

\* a second batch, with skip_existing, has converted again a document whose
\* primary converter and fallback both raise, and has failed again
C20_Witness ==
  \E t \in all_pdfs :
    /\ run = 2 /\ skip_existing
    /\ doc[t].opens /\ ~Converts(doc[t])
    /\ tk[t].pc = "consumed"
    /\ tk[t].tries = 1
    /\ ~tk[t].res.success
    /\ fs[out_fp(t)] = NoFile
    /\ fail = 1

\* C20 as claimed, in a batch: a document the chain cannot convert, which
\* failed in the batch before, is converted again by a batch with
\* skip_existing and is not reported as skipped.
C20_FailedDocumentRetried ==
  \A t \in all_pdfs :
    (/\ run >= 2 /\ skip_existing /\ disk # "noaccess"
     /\ ~Converts(doc[t]) /\ t \notin prevOK
     /\ Finished(t)) =>
      tk[t].tries = 1 /\ tk[t].res # Skipped(t)

====
